---- MODULE Spec2Model ----
(***************************************************************************)
(* KeyPartyClient (src/src/client.ts): constructor, the request/retry/     *)
(* error-classification pipeline, input validation and the credit          *)
(* operations, as a state machine.                                         *)
(*                                                                         *)
(* JavaScript values are tagged records: [t |-> "string", ...],            *)
(* [t |-> "number", n, d] (the rational n/d; d = 0 is NaN),                *)
(* [t |-> "boolean", b], [t |-> "undefined"], [t |-> "null"],              *)
(* [t |-> "object", fields].  Text is a sequence of tokens, and            *)
(* String.includes is token membership.  A credential is a sequence of    *)
(* characters.  A userId string is its content tag with the number of      *)
(* leading whitespace, core and trailing whitespace characters.            *)
(***************************************************************************)
EXTENDS Integers, Sequences, FiniteSets, TLC

VARIABLES client, calls, batch

vars == <<client, calls, batch>>

(***************************************************************************)
(* Bounds of the exploration.                                              *)
(***************************************************************************)
MaxRetry == 2
MaxBatch == 2

Slots == 1..MaxBatch

(***************************************************************************)
(* Program constants.                                                      *)
(***************************************************************************)
DEFAULT_retryAttempts == 3
MaxUserIdLength == 255
MinBatchCount == 1
MaxBatchCount == 100
MaxNameLength == 255
MaxMetadataSize == 10000

(***************************************************************************)
(* JavaScript values.                                                      *)
(***************************************************************************)
Undefined == [t |-> "undefined"]
Null == [t |-> "null"]
Num(n) == [t |-> "number", n |-> n, d |-> 1]
Frac(n, d) == [t |-> "number", n |-> n, d |-> d]
NaN == [t |-> "number", n |-> 0, d |-> 0]
Bool(b) == [t |-> "boolean", b |-> b]
Text(tokens) == [t |-> "string", text |-> tokens]
Key(chars) == [t |-> "string", chars |-> chars]
UserStr(id, lead, core, trail) ==
    [t |-> "string", id |-> id, lead |-> lead, core |-> core, trail |-> trail]
Obj(fields) == [t |-> "object", fields |-> fields]

\* typeof v
TypeOf(v) == IF v.t = "null" THEN "object" ELSE v.t

\* v.length of a userId string
StrLength(v) == v.lead + v.core + v.trail

\* v.trim().length of a userId string
TrimLength(v) == v.core

\* !v for the values a userId or a credential can take
Falsy(v) ==
    CASE v.t = "undefined" -> TRUE
      [] v.t = "null" -> TRUE
      [] v.t = "number" -> (v.d = 0 \/ v.n = 0)
      [] v.t = "boolean" -> ~v.b
      [] v.t = "string" ->
            IF "chars" \in DOMAIN v THEN Len(v.chars) = 0
            ELSE IF "text" \in DOMAIN v THEN Len(v.text) = 0
            ELSE StrLength(v) = 0
      [] OTHER -> FALSE

\* Number.isInteger(v)
IsInteger(v) == v.t = "number" /\ v.d # 0 /\ v.n % v.d = 0

\* The prefix found anywhere in the string (includes in place of startsWith).
StartsWith_anywhere(chars, prefix) ==
    \E i \in 1..Len(chars) :
        /\ i + Len(prefix) - 1 <= Len(chars)
        /\ SubSeq(chars, i, i + Len(prefix) - 1) = prefix

\* String.prototype.startsWith
StartsWith(chars, prefix) ==
    /\ Len(chars) >= Len(prefix)
    /\ SubSeq(chars, 1, Len(prefix)) = prefix

\* String.prototype.includes on a token text
Includes(text, pattern) == \E i \in 1..Len(text) : text[i] = pattern

SK_PREFIX == <<"s", "k", "_">>
UNKNOWN == UserStr("unknown", 0, 7, 0)

(***************************************************************************)
(* Error classes (src/src/client.ts, 1903-1987).                           *)
(***************************************************************************)
NoDetails == [t |-> "undefined"]
NoError == [name |-> "null"]

KeyPartyError(name, message, code, statusCode, details) ==
    [name |-> name, message |-> message, code |-> code,
     statusCode |-> statusCode, details |-> details]

ValidationError(message) ==
    KeyPartyError("ValidationError", message, "VALIDATION_ERROR", 400, NoDetails)

AuthenticationError(message) ==
    KeyPartyError("AuthenticationError", message, "AUTH_ERROR", 401, NoDetails)

ForbiddenError(message) ==
    KeyPartyError("ForbiddenError", message, "FORBIDDEN_ERROR", 403, NoDetails)

RateLimitError(message) ==
    KeyPartyError("RateLimitError", message, "RATE_LIMIT_ERROR", 429, NoDetails)

InsufficientCreditsError(message) ==
    KeyPartyError("InsufficientCreditsError", message, "INSUFFICIENT_CREDITS", 400, NoDetails)

NetworkError(message, details) ==
    KeyPartyError("NetworkError", message, "NETWORK_ERROR", 0, details)

UserNotFoundError(userId) ==
    KeyPartyError("UserNotFoundError", <<"User not found: ", userId.id>>,
                  "USER_NOT_FOUND", 404, NoDetails)

\* A plain (untyped) Error raised during attempt `at` of a request call.
PlainError(name, message, at) == [name |-> name, message |-> message, at |-> at]

\* The list of classes without InsufficientCreditsError.
NonRetryable_noInsufficient(e) ==
    e.name \in {"ValidationError", "AuthenticationError", "ForbiddenError",
                "UserNotFoundError", "RateLimitError"}

\* error instanceof one of the classes request does not retry
NonRetryable(e) ==
    e.name \in {"ValidationError", "AuthenticationError", "ForbiddenError",
                "UserNotFoundError", "InsufficientCreditsError", "RateLimitError"}

(***************************************************************************)
(* Configuration (src/src/client.ts, 52-57 and 90).                        *)
(***************************************************************************)
DEFAULT_timeout == 10000
DEFAULT_retryDelay == 1000

DEFAULT_CONFIG ==
    [baseUrl |-> Text(<<"https://ideal-grouse-601.convex.site">>),
     timeout |-> Num(DEFAULT_timeout),
     retryAttempts |-> Num(DEFAULT_retryAttempts),
     retryDelay |-> Num(DEFAULT_retryDelay)]

\* { ...DEFAULT_CONFIG, ...config }: every key config carries overrides the
\* default, also when its value is undefined.
MergeConfig(defaults, config) ==
    [k \in DOMAIN defaults |->
        IF k \in DOMAIN config THEN config[k] ELSE defaults[k]]

\* attempt <= x and attempt < x for a JavaScript value x (false for undefined
\* and NaN)
JsLeq_strict(a, x) == x.t = "number" /\ x.d > 0 /\ a * x.d < x.n
JsLeq(a, x) == x.t = "number" /\ x.d > 0 /\ a * x.d <= x.n
JsLess_orEqual(a, x) == x.t = "number" /\ x.d > 0 /\ a * x.d <= x.n
JsLess(a, x) == x.t = "number" /\ x.d > 0 /\ a * x.d < x.n

(***************************************************************************)
(* State of one call of request, and its outcome.                          *)
(***************************************************************************)
NoBody == [present |-> FALSE, fields |-> <<>>]
Body(fields) == [present |-> TRUE, fields |-> fields]
NoWire == [sent |-> FALSE]
NoResponse == [received |-> FALSE]

NoOutcome == [kind |-> "none"]
Returned(value) == [kind |-> "value", value |-> value]
Thrown(error) == [kind |-> "error", error |-> error]

IdleCall ==
    [pc |-> "idle", op |-> "none", args |-> <<>>, method |-> "none", path |-> "none",
     body |-> NoBody, attempt |-> 0, fetches |-> 0, delays |-> 0,
     waits |-> <<>>,
     rejects |-> 0, responses |-> 0, lastError |-> NoError, timers |-> {},
     outcome |-> NoOutcome, settles |-> 0, wire |-> NoWire,
     response |-> NoResponse]

\* The promise of the call settles with the outcome.
Finish(c, outcome) ==
    [c EXCEPT !.pc = "done", !.outcome = outcome, !.settles = @ + 1]

(***************************************************************************)
(* request: one attempt (src/src/client.ts, 117-188).                      *)
(***************************************************************************)
\* response.ok
ResponseOk(status) == status >= 200 /\ status <= 299

\* !data.success in place of data.success === false
isErrorResponse_falsy(data) ==
    /\ TypeOf(data) = "object"
    /\ data.t # "null"
    /\ "success" \in DOMAIN data.fields
    /\ Falsy(data.fields.success)

isErrorResponse(data) ==
    /\ TypeOf(data) = "object"
    /\ data.t # "null"
    /\ "success" \in DOMAIN data.fields
    /\ data.fields.success = Bool(FALSE)

\* data.error
ErrorField(data) ==
    IF "error" \in DOMAIN data.fields THEN data.fields.error ELSE Undefined

\* data.error?.includes(pattern): "true", "false", or "throw" (a TypeError,
\* when data.error is neither nullish nor a string)
OptIncludes(e, pattern) ==
    CASE e.t \in {"undefined", "null"} -> "false"
      [] e.t = "string" -> IF Includes(e.text, pattern) THEN "true" ELSE "false"
      [] OTHER -> "throw"

\* The message an Error built from a value carries.
MessageOf(e) ==
    CASE e.t = "string" -> e.text
      [] e.t = "undefined" -> <<>>
      [] e.t = "number" -> <<ToString(e.n)>>
      [] OTHER -> <<e.t>>

\* body?.userId
BodyUserId(body) ==
    IF body.present /\ "userId" \in DOMAIN body.fields
    THEN body.fields.userId ELSE Undefined

\* The id parsed out of the response message "User not found: <id>".
UserIdOrUnknown_fromMessage(body, data) ==
    LET text == ErrorField(data).text IN
    IF Len(text) >= 3 THEN UserStr(text[3], 0, 2, 0) ELSE UNKNOWN

\* String(body?.userId || 'unknown')
UserIdOrUnknown(body, data) ==
    LET u == BodyUserId(body) IN
    IF Falsy(u) THEN UNKNOWN
    ELSE IF u.t = "string" THEN u
    ELSE UserStr(ToString(u.n), 0, 1, 0)

NoThrow == [thrown |-> FALSE]
Throw(e) == [thrown |-> TRUE, error |-> e]

\* The body of the catch block of response.json() (139-151).
ParseFailure(status, at) ==
    IF ~ResponseOk(status)
    THEN IF status = 401 THEN Throw(AuthenticationError(<<"Invalid service key">>))
         ELSE IF status = 429 THEN Throw(RateLimitError(<<"Rate limit exceeded">>))
         ELSE Throw(PlainError("Error", <<"HTTP ", ToString(status)>>, at))
    ELSE Throw(PlainError("Error", <<"Invalid response format: expected JSON">>, at))

\* The HTTP status checks on an error response (156-172).
StatusRules(status, data, at) ==
    LET err == ErrorField(data) IN
    IF ResponseOk(status) THEN NoThrow
    ELSE IF status = 401 THEN Throw(AuthenticationError(<<"Invalid service key">>))
    ELSE IF status = 403
         THEN Throw(ForbiddenError(IF Falsy(err)
                                   THEN <<"Operation forbidden for this key type">>
                                   ELSE MessageOf(err)))
    ELSE IF status = 429 THEN Throw(RateLimitError(<<"Rate limit exceeded">>))
    ELSE IF status = 402
         THEN CASE OptIncludes(err, "Insufficient credits") = "true" ->
                      Throw(InsufficientCreditsError(err.text))
                [] OptIncludes(err, "Insufficient credits") = "throw" ->
                      Throw(PlainError("TypeError", <<"includes is not a function">>, at))
                [] OTHER -> NoThrow
    ELSE NoThrow

\* The message pattern checks on an error response (174-184).
MessageRules(data, body, at) ==
    LET err == ErrorField(data) IN
    IF OptIncludes(err, "User not found") = "throw"
    THEN Throw(PlainError("TypeError", <<"includes is not a function">>, at))
    ELSE IF OptIncludes(err, "User not found") = "true"
    THEN Throw(UserNotFoundError(UserIdOrUnknown(body, data)))
    ELSE IF OptIncludes(err, "Missing API key") = "true"
    THEN Throw(AuthenticationError(err.text))
    ELSE IF OptIncludes(err, "Insufficient credits") = "true"
    THEN Throw(InsufficientCreditsError(err.text))
    ELSE Throw(PlainError("Error", MessageOf(err), at))

\* The message patterns checked before the HTTP status.
ClassifyEnvelope_messageFirst(status, data, body, at) ==
    IF MessageRules(data, body, at).error.name \notin {"Error", "TypeError"}
    THEN MessageRules(data, body, at)
    ELSE IF StatusRules(status, data, at).thrown
    THEN StatusRules(status, data, at)
    ELSE MessageRules(data, body, at)

\* The handling of an error response (154-185).
ClassifyEnvelope(status, data, body, at) ==
    IF StatusRules(status, data, at).thrown
    THEN StatusRules(status, data, at)
    ELSE MessageRules(data, body, at)

\* What the try block does with a response (136-188): the completion is a
\* return of the parsed body or a throw.
HandleResponse(status, rbody, body, at) ==
    IF rbody.parse = "fail" THEN ParseFailure(status, at)
    ELSE IF isErrorResponse(rbody.json)
         THEN ClassifyEnvelope(status, rbody.json, body, at)
         ELSE [thrown |-> FALSE, value |-> rbody.json]

(***************************************************************************)
(* request: the attempt loop (src/src/client.ts, 113-215).                 *)
(***************************************************************************)
\* The loop left without the final throw: the call resolves with undefined.
LoopHead_noThrow(c, cl) ==
    IF JsLeq(c.attempt, cl.config.retryAttempts)
    THEN [c EXCEPT !.pc = "inflight",
                   !.fetches = @ + 1,
                   !.timers = @ \cup {c.attempt},
                   !.response = NoResponse,
                   !.wire = [sent |-> TRUE,
                             url |-> [base |-> cl.config.baseUrl, path |-> c.path],
                             method |-> c.method,
                             apiKey |-> cl.serviceKey,
                             body |-> c.body,
                             timeout |-> cl.config.timeout]]
    ELSE [c EXCEPT !.pc = "done"]

\* The loop condition and, when it holds, the start of an attempt: the
\* timeout timer is set and fetch is invoked (117-131).  When it fails the
\* call throws NetworkError (214).
LoopHead(c, cl) ==
    IF JsLeq(c.attempt, cl.config.retryAttempts)
    THEN [c EXCEPT !.pc = "inflight",
                   !.fetches = @ + 1,
                   !.timers = @ \cup {c.attempt},
                   !.response = NoResponse,
                   !.wire = [sent |-> TRUE,
                             url |-> [base |-> cl.config.baseUrl, path |-> c.path],
                             method |-> c.method,
                             apiKey |-> cl.serviceKey,
                             body |-> c.body,
                             timeout |-> cl.config.timeout]]
    ELSE Finish(c, Thrown(NetworkError(<<"Max retry attempts exceeded">>,
                                       [originalError |-> c.lastError])))

\* The catch block giving up one attempt early: NetworkError as soon as the
\* attempt after this one would be the last.
Catch_givesUpEarly(c, cl, e) ==
    LET c1 == [c EXCEPT !.lastError = e] IN
    IF NonRetryable(e) THEN Finish(c1, Thrown(e))
    ELSE IF JsLess(c.attempt + 1, cl.config.retryAttempts)
         THEN [c1 EXCEPT !.pc = "delay", !.delays = @ + 1,
                         !.waits = Append(@, cl.config.retryDelay)]
         ELSE Finish(c1, Thrown(NetworkError(<<"Max retry attempts exceeded">>,
                                             [originalError |-> e])))

\* The catch block retrying at once, without awaiting the delay.
Catch_noDelay(c, cl, e) ==
    LET c1 == [c EXCEPT !.lastError = e] IN
    IF NonRetryable(e) THEN Finish(c1, Thrown(e))
    ELSE LoopHead([c1 EXCEPT !.attempt = @ + 1,
                             !.delays = IF JsLess(c.attempt, cl.config.retryAttempts)
                                        THEN @ + 1 ELSE @], cl)

\* The catch block rethrowing the last error itself when no attempt is left.
Catch_rethrowsLast(c, cl, e) ==
    LET c1 == [c EXCEPT !.lastError = e] IN
    IF NonRetryable(e) THEN Finish(c1, Thrown(e))
    ELSE IF JsLess(c.attempt, cl.config.retryAttempts)
         THEN [c1 EXCEPT !.pc = "delay", !.delays = @ + 1,
                         !.waits = Append(@, cl.config.retryDelay)]
         ELSE Finish(c1, Thrown(e))

\* The catch block keeping the first error of the call in lastError.
Catch_keepsFirst(c, cl, e) ==
    LET c1 == [c EXCEPT !.lastError = IF @ = NoError THEN e ELSE @] IN
    IF NonRetryable(e) THEN Finish(c1, Thrown(e))
    ELSE IF JsLess(c.attempt, cl.config.retryAttempts)
         THEN [c1 EXCEPT !.pc = "delay", !.delays = @ + 1,
                         !.waits = Append(@, cl.config.retryDelay)]
         ELSE LoopHead([c1 EXCEPT !.attempt = @ + 1], cl)

\* The catch block (189-210), then the loop's increment and condition.
Catch(c, cl, e) ==
    LET c1 == [c EXCEPT !.lastError = e] IN
    IF NonRetryable(e) THEN Finish(c1, Thrown(e))
    ELSE IF JsLess(c.attempt, cl.config.retryAttempts)
         THEN [c1 EXCEPT !.pc = "delay", !.delays = @ + 1,
                         !.waits = Append(@, cl.config.retryDelay)]
         ELSE LoopHead([c1 EXCEPT !.attempt = @ + 1], cl)

\* request(method, path, body) up to its first await.
request(cl, op, args, method, path, body) ==
    LoopHead([IdleCall EXCEPT !.op = op, !.args = args, !.method = method,
                              !.path = path, !.body = body], cl)

(***************************************************************************)
(* Validation (src/src/client.ts, 237-268).                                *)
(***************************************************************************)
\* The length limit off by one (>= in place of >).
validateUserId_offByOne(userId) ==
    IF TypeOf(userId) # "string"
    THEN Throw(ValidationError(<<"userId is required and must be a string">>))
    ELSE IF Falsy(userId) \/ TrimLength(userId) = 0
    THEN Throw(ValidationError(<<"userId cannot be empty or whitespace">>))
    ELSE IF StrLength(userId) >= MaxUserIdLength
    THEN Throw(ValidationError(<<"userId must be 255 characters or less">>))
    ELSE NoThrow

validateUserId(userId) ==
    IF TypeOf(userId) # "string"
    THEN Throw(ValidationError(<<"userId is required and must be a string">>))
    ELSE IF Falsy(userId) \/ TrimLength(userId) = 0
    THEN Throw(ValidationError(<<"userId cannot be empty or whitespace">>))
    ELSE IF StrLength(userId) > MaxUserIdLength
    THEN Throw(ValidationError(<<"userId must be 255 characters or less">>))
    ELSE NoThrow

validateAmount(amount, allowZero) ==
    IF TypeOf(amount) # "number" \/ ~IsInteger(amount)
    THEN Throw(ValidationError(<<"amount must be an integer">>))
    ELSE IF ~allowZero /\ amount.n \div amount.d <= 0
    THEN Throw(ValidationError(<<"amount must be positive">>))
    ELSE IF allowZero /\ amount.n \div amount.d < 0
    THEN Throw(ValidationError(<<"amount cannot be negative">>))
    ELSE NoThrow

\* A public operation that throws before it calls request.
Rejected(op, args, e) ==
    Finish([IdleCall EXCEPT !.op = op, !.args = args], Thrown(e))

Path(p) == [path |-> p, query |-> <<>>]

\* reason || fallback
OrDefault(v, fallback) == IF Falsy(v) THEN Text(<<fallback>>) ELSE v

(***************************************************************************)
(* The credit operations (src/src/client.ts, 285-382) and a bodyless       *)
(* operation (625-630), each up to its first await.                        *)
(***************************************************************************)
getCredits(cl, userId) ==
    IF validateUserId(userId).thrown
    THEN Rejected("getCredits", [userId |-> userId], validateUserId(userId).error)
    ELSE request(cl, "getCredits", [userId |-> userId], "POST", Path("/api/credits/get"),
                 Body([userId |-> userId]))

addCredits(cl, userId, amount, reason) ==
    IF validateUserId(userId).thrown
    THEN Rejected("addCredits", [userId |-> userId, amount |-> amount],
                  validateUserId(userId).error)
    ELSE IF validateAmount(amount, FALSE).thrown
    THEN Rejected("addCredits", [userId |-> userId, amount |-> amount],
                  validateAmount(amount, FALSE).error)
    ELSE request(cl, "addCredits", [userId |-> userId, amount |-> amount],
                 "POST", Path("/api/credits/add"),
                 Body([userId |-> userId, amount |-> amount,
                       reason |-> OrDefault(reason, "Credit addition")]))

deductCredits(cl, userId, amount, reason) ==
    IF validateUserId(userId).thrown
    THEN Rejected("deductCredits", [userId |-> userId, amount |-> amount],
                  validateUserId(userId).error)
    ELSE IF validateAmount(amount, FALSE).thrown
    THEN Rejected("deductCredits", [userId |-> userId, amount |-> amount],
                  validateAmount(amount, FALSE).error)
    ELSE request(cl, "deductCredits", [userId |-> userId, amount |-> amount],
                 "POST", Path("/api/credits/deduct"),
                 Body([userId |-> userId, amount |-> amount,
                       reason |-> OrDefault(reason, "Credit deduction")]))

setCredits(cl, userId, amount, reason) ==
    IF validateUserId(userId).thrown
    THEN Rejected("setCredits", [userId |-> userId, amount |-> amount],
                  validateUserId(userId).error)
    ELSE IF validateAmount(amount, TRUE).thrown
    THEN Rejected("setCredits", [userId |-> userId, amount |-> amount],
                  validateAmount(amount, TRUE).error)
    ELSE request(cl, "setCredits", [userId |-> userId, amount |-> amount],
                 "POST", Path("/api/credits/set"),
                 Body([userId |-> userId, amount |-> amount,
                       reason |-> OrDefault(reason, "Credit balance update")]))

getSubscriptionStatus(cl, userId) ==
    IF validateUserId(userId).thrown
    THEN Rejected("getSubscriptionStatus", [userId |-> userId], validateUserId(userId).error)
    ELSE request(cl, "getSubscriptionStatus", [userId |-> userId], "GET",
                 [path |-> "/api/subscriptions/status",
                  query |-> <<[name |-> "serviceApiKey", value |-> cl.serviceKey]>>],
                 NoBody)

(***************************************************************************)
(* createChildKey (src/src/client.ts, 467-529), up to its first await.     *)
(***************************************************************************)
\* An object value; json is what JSON.stringify makes of it: a string of
\* some length, an exception (a cycle, a BigInt) or undefined (a toJSON that
\* returns undefined).
PlainObject(id, json) == [t |-> "object", id |-> id, array |-> FALSE, json |-> json]
ArrayValue(id, json) == [t |-> "object", id |-> id, array |-> TRUE, json |-> json]
Serialized(length) == [kind |-> "string", length |-> length]
JsonStringify(v) == v.json

\* Array.isArray(v)
IsArray(v) == v.t = "object" /\ v.array

\* options?.field
OptionOf(options, field) ==
    IF options.t = "object" THEN options.fields[field] ELSE Undefined

\* The checks of the custom name (486-496).
NameCheck(name) ==
    IF name = Undefined THEN NoThrow
    ELSE IF TypeOf(name) # "string"
    THEN Throw(ValidationError(<<"name must be a string">>))
    ELSE IF TrimLength(name) = 0
    THEN Throw(ValidationError(<<"name cannot be empty or whitespace">>))
    ELSE IF StrLength(name) > MaxNameLength
    THEN Throw(ValidationError(<<"name must be 255 characters or less">>))
    ELSE NoThrow

\* The checks of the metadata (499-516); serialized.length of an undefined
\* serialized is a TypeError.
MetadataCheck(metadata) ==
    IF metadata = Undefined THEN NoThrow
    ELSE IF TypeOf(metadata) # "object" \/ metadata = Null \/ IsArray(metadata)
    THEN Throw(ValidationError(<<"metadata must be an object">>))
    ELSE IF JsonStringify(metadata).kind = "throws"
    THEN Throw(ValidationError(<<"metadata must be JSON-serializable">>))
    ELSE IF JsonStringify(metadata).kind = "undefined"
    THEN Throw(PlainError("TypeError", <<"Cannot read properties of undefined">>, 0))
    ELSE IF JsonStringify(metadata).length > MaxMetadataSize
    THEN Throw(ValidationError(<<"metadata size must be 10KB or less when serialized">>))
    ELSE NoThrow

\* The request body of createChildKey (519-528).
ChildKeyBody(externalUserId, initialCredits, name, environment, metadata) ==
    LET finalName == IF Falsy(name)
                     THEN [t |-> "string", prefix |-> externalUserId, suffix |-> " API Key"]
                     ELSE name
        fields == [name |-> finalName, environment |-> environment,
                   externalUserId |-> externalUserId, credits |-> initialCredits]
    IN IF Falsy(metadata) THEN Body(fields)
       ELSE Body([f \in DOMAIN fields \cup {"metadata"} |->
                    IF f = "metadata" THEN metadata ELSE fields[f]])

\* createChildKey checking the optional parameters before the required ones.
createChildKey_optionalFirst(cl, externalUserId, initialCredits, options) ==
    LET name == OptionOf(options, "name")
        environment == IF Falsy(OptionOf(options, "environment"))
                       THEN Text(<<"production">>) ELSE OptionOf(options, "environment")
        metadata == OptionOf(options, "metadata")
        args == [externalUserId |-> externalUserId, initialCredits |-> initialCredits,
                 options |-> options]
    IN IF NameCheck(name).thrown
       THEN Rejected("createChildKey", args, NameCheck(name).error)
       ELSE IF MetadataCheck(metadata).thrown
       THEN Rejected("createChildKey", args, MetadataCheck(metadata).error)
       ELSE IF validateUserId(externalUserId).thrown
       THEN Rejected("createChildKey", args, validateUserId(externalUserId).error)
       ELSE IF validateAmount(initialCredits, FALSE).thrown
       THEN Rejected("createChildKey", args, validateAmount(initialCredits, FALSE).error)
       ELSE request(cl, "createChildKey", args, "POST", Path("/api/keys/create"),
                    ChildKeyBody(externalUserId, initialCredits, name, environment, metadata))

createChildKey(cl, externalUserId, initialCredits, options) ==
    LET name == OptionOf(options, "name")
        environment == IF Falsy(OptionOf(options, "environment"))
                       THEN Text(<<"production">>) ELSE OptionOf(options, "environment")
        metadata == OptionOf(options, "metadata")
        args == [externalUserId |-> externalUserId, initialCredits |-> initialCredits,
                 options |-> options]
    IN IF validateUserId(externalUserId).thrown
       THEN Rejected("createChildKey", args, validateUserId(externalUserId).error)
       ELSE IF validateAmount(initialCredits, FALSE).thrown
       THEN Rejected("createChildKey", args, validateAmount(initialCredits, FALSE).error)
       ELSE IF NameCheck(name).thrown
       THEN Rejected("createChildKey", args, NameCheck(name).error)
       ELSE IF MetadataCheck(metadata).thrown
       THEN Rejected("createChildKey", args, MetadataCheck(metadata).error)
       ELSE request(cl, "createChildKey", args, "POST", Path("/api/keys/create"),
                    ChildKeyBody(externalUserId, initialCredits, name, environment, metadata))

(***************************************************************************)
(* Inputs.                                                                 *)
(***************************************************************************)
Names ==
    {Undefined, Num(5), UserStr("empty", 0, 0, 0), UserStr("blank", 2, 0, 0),
     UserStr("My Key", 0, 6, 0), UserStr("long256", 0, MaxNameLength + 1, 0)}

Metadatas ==
    {Undefined, Null, Text(<<"x">>),
     ArrayValue("list", Serialized(2)),
     PlainObject("plan", Serialized(14)),
     PlainObject("full", Serialized(MaxMetadataSize)),
     PlainObject("big", Serialized(MaxMetadataSize + 1)),
     PlainObject("cyclic", [kind |-> "throws"]),
     PlainObject("toJSON", [kind |-> "undefined"])}

Options ==
    {Undefined,
     Obj([name |-> Undefined, environment |-> Text(<<"staging">>), metadata |-> Undefined])}
    \cup {Obj([name |-> n, environment |-> Undefined, metadata |-> m]) :
             n \in Names, m \in Metadatas}

Credentials ==
    {Undefined, Null, Num(123), Key(<<>>),
     Key(<<"s", "k", "_">>), Key(<<"s", "k", "_", "a">>),
     Key(<<"s", "k">>), Key(<<"p", "k", "_", "a">>),
     Key(<<"x", "s", "k", "_">>), Key(<<"c", "k", "_", "p", "k", "_">>)}

\* The config argument: absent, or an object carrying retryAttempts.
Configs ==
    {<<>>} \cup {[retryAttempts |-> Num(r)] : r \in -1..MaxRetry}
           \cup {[retryAttempts |-> Undefined]}
           \cup {[baseUrl |-> Text(<<"https://keys.example.test">>), timeout |-> Num(50),
                  retryAttempts |-> Num(1), retryDelay |-> Num(5)]}

UserIds ==
    {Undefined, Num(123), UserStr("empty", 0, 0, 0), UserStr("blank", 2, 0, 0),
     UserStr("u1", 0, 2, 0), UserStr("padded", 1, 2, 1),
     UserStr("long255", 0, MaxUserIdLength, 0),
     UserStr("long256", 0, MaxUserIdLength + 1, 0),
     UserStr("padded256", 1, MaxUserIdLength, 0)}

Amounts ==
    {Undefined, NaN, Frac(3, 2), Num(-1), Num(0), Num(1), Text(<<"5">>)}

Reasons == {Undefined}

Statuses == {200, 401, 402, 403, 404, 429, 500}

Envelope(err) ==
    Obj([success |-> Bool(FALSE), error |-> err, timestamp |-> Num(1)])

EnvelopeErrors ==
    {Text(<<"User not found", ": ", "u9">>),
     Text(<<"Missing API key">>),
     Text(<<"Insufficient credits", ": need 5">>),
     Text(<<"Insufficient credits", "Missing API key", "User not found">>),
     Text(<<"Insufficient credits", "Missing API key">>),
     Text(<<"Unauthorized">>),
     Num(5)}

JsonBodies ==
    {Envelope(e) : e \in EnvelopeErrors}
    \cup {Obj([success |-> Bool(FALSE)]),
          Obj([userId |-> Text(<<"u1">>), credits |-> Num(100)]),
          Obj([success |-> Bool(TRUE), data |-> Num(7)]),
          Obj([success |-> Num(0), error |-> Text(<<"User not found">>)]),
          Obj([error |-> Text(<<"Insufficient credits">>)]),
          Null}

ResponseBodies ==
    {[parse |-> "fail"]} \cup {[parse |-> "ok", json |-> j] : j \in JsonBodies}

(***************************************************************************)
(* State.                                                                  *)
(***************************************************************************)
NoClient == [state |-> "none"]
NoBatch == [state |-> "none"]

Init ==
    /\ client = NoClient
    /\ calls = [s \in Slots |-> IdleCall]
    /\ batch = NoBatch

\* No operation has been started on the client.
Quiet == batch.state = "none" /\ \A s \in Slots : calls[s].pc = "idle"

(***************************************************************************)
(* new KeyPartyClient(serviceKey, config) (src/src/client.ts, 80-91).      *)
(***************************************************************************)
constructor(serviceKey, config) ==
    IF Falsy(serviceKey) \/ TypeOf(serviceKey) # "string"
    THEN [state |-> "failed",
          error |-> ValidationError(<<"Service key is required">>),
          given |-> serviceKey]
    ELSE IF ~StartsWith(serviceKey.chars, SK_PREFIX)
    THEN [state |-> "failed",
          error |-> ValidationError(<<"Service key must start with \"sk_\"">>),
          given |-> serviceKey]
    ELSE [state |-> "ok", serviceKey |-> serviceKey,
          config |-> MergeConfig(DEFAULT_CONFIG, config)]

Construct ==
    /\ client.state = "none"
    /\ \E k \in Credentials, cfg \in Configs : client' = constructor(k, cfg)
    /\ UNCHANGED <<calls, batch>>

(***************************************************************************)
(* Calls of the public operations.                                         *)
(***************************************************************************)
GetCredits(userIds) ==
    /\ client.state = "ok" /\ Quiet
    /\ \E u \in userIds : calls' = [calls EXCEPT ![1] = getCredits(client, u)]
    /\ UNCHANGED <<client, batch>>

AddCredits(userIds, amounts) ==
    /\ client.state = "ok" /\ Quiet
    /\ \E u \in userIds, a \in amounts, r \in Reasons :
          calls' = [calls EXCEPT ![1] = addCredits(client, u, a, r)]
    /\ UNCHANGED <<client, batch>>

DeductCredits(userIds, amounts) ==
    /\ client.state = "ok" /\ Quiet
    /\ \E u \in userIds, a \in amounts, r \in Reasons :
          calls' = [calls EXCEPT ![1] = deductCredits(client, u, a, r)]
    /\ UNCHANGED <<client, batch>>

SetCredits(userIds, amounts) ==
    /\ client.state = "ok" /\ Quiet
    /\ \E u \in userIds, a \in amounts, r \in Reasons :
          calls' = [calls EXCEPT ![1] = setCredits(client, u, a, r)]
    /\ UNCHANGED <<client, batch>>

CreateChildKey(userIds, amounts, options) ==
    /\ client.state = "ok" /\ Quiet
    /\ \E u \in userIds, a \in amounts, o \in options :
          calls' = [calls EXCEPT ![1] = createChildKey(client, u, a, o)]
    /\ UNCHANGED <<client, batch>>

GetSubscriptionStatus(userIds) ==
    /\ client.state = "ok" /\ Quiet
    /\ \E u \in userIds :
          calls' = [calls EXCEPT ![1] = getSubscriptionStatus(client, u)]
    /\ UNCHANGED <<client, batch>>

(***************************************************************************)
(* The transport and the timers.                                           *)
(***************************************************************************)
\* The operations of a pending batch in the order in which they settle: the
\* reactions Promise.allSettled (420) attached to a promise run as soon as the
\* promise settles.
Observe(b, s, before, after) ==
    IF b.state = "waiting" /\ before.pc # "done" /\ after.pc = "done"
    THEN [b EXCEPT !.order = Append(@, s)]
    ELSE b

\* fetch rejects: connection or DNS failure.  The timeout timer of the
\* attempt is not cleared (clearTimeout at 133 is skipped by the throw).
FetchReject(s) ==
    /\ calls[s].pc = "inflight"
    /\ calls' = [calls EXCEPT ![s] =
          Catch([calls[s] EXCEPT !.rejects = @ + 1], client,
                PlainError("TypeError", <<"fetch failed">>, calls[s].attempt))]
    /\ batch' = Observe(batch, s, calls[s], calls'[s])
    /\ UNCHANGED client

\* One AbortController for the whole call: the timer of attempt a aborts
\* whichever attempt is in flight.
TimerFire_sharedController(s, a) ==
    /\ a \in calls[s].timers
    /\ LET c == [calls[s] EXCEPT !.timers = @ \ {a}] IN
       calls' = [calls EXCEPT ![s] =
          IF c.pc = "inflight"
          THEN Catch([c EXCEPT !.rejects = @ + 1], client,
                     PlainError("AbortError", <<"This operation was aborted">>, c.attempt))
          ELSE c]
    /\ batch' = Observe(batch, s, calls[s], calls'[s])
    /\ UNCHANGED client

\* The timeout timer of attempt a fires: controller.abort().  It aborts the
\* fetch of attempt a if that is still in flight, and does nothing otherwise.
TimerFire(s, a) ==
    /\ a \in calls[s].timers
    /\ LET c == [calls[s] EXCEPT !.timers = @ \ {a}] IN
       calls' = [calls EXCEPT ![s] =
          IF c.pc = "inflight" /\ c.attempt = a
          THEN Catch([c EXCEPT !.rejects = @ + 1], client,
                     PlainError("AbortError", <<"This operation was aborted">>, a))
          ELSE c]
    /\ batch' = Observe(batch, s, calls[s], calls'[s])
    /\ UNCHANGED client

\* fetch resolves with a response; the timer is cleared, the body is read
\* and handled.
FetchRespond(s, statuses, rbodies) ==
    /\ calls[s].pc = "inflight"
    /\ \E status \in statuses, rbody \in rbodies :
          LET c == [calls[s] EXCEPT !.timers = @ \ {calls[s].attempt},
                                    !.responses = @ + 1,
                                    !.response = [received |-> TRUE, status |-> status,
                                                  rbody |-> rbody]]
              r == HandleResponse(status, rbody, c.body, c.attempt)
          IN calls' = [calls EXCEPT ![s] =
                IF r.thrown THEN Catch(c, client, r.error)
                ELSE Finish(c, Returned(r.value))]
    /\ batch' = Observe(batch, s, calls[s], calls'[s])
    /\ UNCHANGED client

\* The retry taken out of the instance's configuration as it is used.
DelayElapsed_consumesRetry(s) ==
    /\ calls[s].pc = "delay"
    /\ calls' = [calls EXCEPT ![s] =
          LoopHead([calls[s] EXCEPT !.attempt = @ + 1], client)]
    /\ batch' = Observe(batch, s, calls[s], calls'[s])
    /\ client' = [client EXCEPT !.config.retryAttempts.n = @ - 1]

\* The retry delay elapses: continue, the loop's increment and condition.
DelayElapsed(s) ==
    /\ calls[s].pc = "delay"
    /\ calls' = [calls EXCEPT ![s] =
          LoopHead([calls[s] EXCEPT !.attempt = @ + 1], client)]
    /\ batch' = Observe(batch, s, calls[s], calls'[s])
    /\ UNCHANGED client

(***************************************************************************)
(* batchOperation (src/src/client.ts, 401-447).                            *)
(***************************************************************************)
Counts ==
    {Frac(3, 2), Num(0), Num(MaxBatchCount + 1)} \cup {Num(n) : n \in 1..MaxBatch}

BatchKinds == {"add", "deduct"}

\* The count check without Number.isInteger: a fraction is truncated.
BadCount_truncates(count) ==
    \/ count.n \div count.d < MinBatchCount
    \/ count.n \div count.d > MaxBatchCount

\* count is not an integer in [1, 100]
BadCount(count) ==
    \/ ~IsInteger(count)
    \/ count.n \div count.d < MinBatchCount
    \/ count.n \div count.d > MaxBatchCount

\* The fold counting a rejected operation without recording its error.
RECURSIVE forEach_dropsError(_, _, _)
forEach_dropsError(results, i, acc) ==
    IF i > Len(results) THEN acc
    ELSE forEach_dropsError(results, i + 1,
            IF results[i].kind = "value"
            THEN [acc EXCEPT !.operations = Append(@, results[i].value),
                             !.totalSuccessful = @ + 1]
            ELSE [acc EXCEPT !.totalFailed = @ + 1])

\* The fold numbering the errors by their position in the errors list.
RECURSIVE forEach_positional(_, _, _)
forEach_positional(results, i, acc) ==
    IF i > Len(results) THEN acc
    ELSE forEach_positional(results, i + 1,
            IF results[i].kind = "value"
            THEN [acc EXCEPT !.operations = Append(@, results[i].value),
                             !.totalSuccessful = @ + 1]
            ELSE [acc EXCEPT !.errors = Append(@, [index |-> Len(acc.errors),
                                                   error |-> results[i].error.message]),
                             !.totalFailed = @ + 1])

\* results.forEach((result, index) => ...) from position i on (428-439)
RECURSIVE forEach(_, _, _)
forEach(results, i, acc) ==
    IF i > Len(results) THEN acc
    ELSE forEach(results, i + 1,
            IF results[i].kind = "value"
            THEN [acc EXCEPT !.operations = Append(@, results[i].value),
                             !.totalSuccessful = @ + 1]
            ELSE [acc EXCEPT !.errors = Append(@, [index |-> i - 1,
                                                   error |-> results[i].error.message]),
                             !.totalFailed = @ + 1])

\* The BatchOperationResult built from the settled results (423-446).
Aggregate(results) ==
    forEach(results, 1, [operations |-> <<>>, totalSuccessful |-> 0,
                         totalFailed |-> 0, errors |-> <<>>])

\* One operation of the batch (415-417), up to its first await.
BatchItem(cl, operation, userId, reason) ==
    IF operation = "add"
    THEN addCredits(cl, userId, Num(1), OrDefault(reason, "Batch add"))
    ELSE deductCredits(cl, userId, Num(1), OrDefault(reason, "Batch deduct"))

\* batchOperation up to its await of Promise.allSettled.
BatchOperation ==
    /\ client.state = "ok" /\ Quiet
    /\ \E operation \in BatchKinds, u \in UserIds, count \in Counts, r \in Reasons :
          IF validateUserId(u).thrown
          THEN /\ batch' = [state |-> "done", operation |-> operation,
                            userId |-> u, count |-> count,
                            outcome |-> Thrown(validateUserId(u).error)]
               /\ UNCHANGED calls
          ELSE IF BadCount(count)
          THEN /\ batch' = [state |-> "done", operation |-> operation,
                            userId |-> u, count |-> count,
                            outcome |-> Thrown(ValidationError(<<"count must be between 1 and 100">>))]
               /\ UNCHANGED calls
          ELSE /\ batch' = [state |-> "waiting", operation |-> operation,
                            userId |-> u, count |-> count,
                            order |-> <<>>, outcome |-> NoOutcome]
               /\ calls' = [s \in Slots |->
                     IF s <= count.n \div count.d
                     THEN BatchItem(client, operation, u, r) ELSE IdleCall]
    /\ UNCHANGED client

\* Promise.all in place of Promise.allSettled: the first rejection rejects
\* batchOperation while other operations are still pending.
BatchSettle_failFast ==
    /\ batch.state = "waiting"
    /\ LET n == batch.count.n \div batch.count.d
           failed == {s \in 1..n : calls[s].pc = "done" /\ calls[s].outcome.kind = "error"}
       IN IF failed # {}
          THEN batch' = [batch EXCEPT !.state = "done",
                            !.outcome = calls[CHOOSE s \in failed : TRUE].outcome]
          ELSE /\ \A s \in 1..n : calls[s].pc = "done"
               /\ batch' = [batch EXCEPT !.state = "done",
                              !.outcome = Returned(Aggregate([s \in 1..n |-> calls[s].outcome]))]
    /\ UNCHANGED <<client, calls>>

\* Promise.allSettled resolves once every operation has settled; the
\* aggregate is built and returned.
BatchSettle ==
    /\ batch.state = "waiting"
    /\ \A s \in 1..(batch.count.n \div batch.count.d) : calls[s].pc = "done"
    /\ batch' = [batch EXCEPT !.state = "done",
                   !.outcome = Returned(Aggregate(
                       [s \in 1..(batch.count.n \div batch.count.d) |-> calls[s].outcome]))]
    /\ UNCHANGED <<client, calls>>

Attempts == 0..(DEFAULT_retryAttempts + MaxRetry)

(***************************************************************************)
(* Spec: construction, then one call of a single operation, with every     *)
(* response the transport can give.                                        *)
(***************************************************************************)
SomeUserIds == {UserStr("blank", 2, 0, 0), UserStr("u1", 0, 2, 0)}
SomeAmounts == {Num(0), Num(1)}

Next ==
    \/ Construct
    \/ GetCredits(SomeUserIds)
    \/ AddCredits(SomeUserIds, SomeAmounts)
    \/ DeductCredits(SomeUserIds, SomeAmounts)
    \/ SetCredits(SomeUserIds, SomeAmounts)
    \/ GetSubscriptionStatus(SomeUserIds)
    \/ \E s \in Slots : FetchReject(s)
    \/ \E s \in Slots : \E a \in Attempts : TimerFire(s, a)
    \/ \E s \in Slots : FetchRespond(s, Statuses, ResponseBodies)
    \/ \E s \in Slots : DelayElapsed(s)

Spec == Init /\ [][Next]_vars

(***************************************************************************)
(* BatchSpec: a client constructed without retries, then one call of a     *)
(* credit operation, of createChildKey or of batchOperation, with every    *)
(* argument.                                                               *)
(***************************************************************************)
BatchStatuses == {200, 403, 500}

BatchBodies ==
    {[parse |-> "fail"],
     [parse |-> "ok", json |-> Obj([userId |-> Text(<<"u1">>), credits |-> Num(100)])],
     [parse |-> "ok", json |-> Obj([userId |-> Text(<<"u1">>), credits |-> Num(99)])],
     [parse |-> "ok", json |-> Envelope(Text(<<"Unauthorized">>))]}

BatchInit ==
    /\ client \in {constructor(Key(<<"s", "k", "_", "a">>), [retryAttempts |-> Num(0)])}
    /\ calls = [s \in Slots |-> IdleCall]
    /\ batch = NoBatch

BatchNext ==
    \/ GetCredits(UserIds)
    \/ AddCredits(UserIds, Amounts)
    \/ DeductCredits(UserIds, Amounts)
    \/ SetCredits(UserIds, Amounts)
    \/ CreateChildKey(UserIds, Amounts, Options)
    \/ BatchOperation
    \/ BatchSettle
    \/ \E s \in Slots : FetchReject(s)
    \/ \E s \in Slots : \E a \in Attempts : TimerFire(s, a)
    \/ \E s \in Slots : FetchRespond(s, BatchStatuses, BatchBodies)

BatchSpec == BatchInit /\ [][BatchNext]_vars

(***************************************************************************)
(* FairSpec: Spec, where every pending timer eventually fires and every    *)
(* retry delay eventually elapses (both are setTimeout callbacks).         *)
(***************************************************************************)
Fairness ==
    /\ \A s \in Slots : WF_vars(DelayElapsed(s))
    /\ \A s \in Slots : WF_vars(\E a \in Attempts : TimerFire(s, a))

FairSpec == Spec /\ Fairness

(***************************************************************************)
(* FairBatchSpec: BatchSpec, where every pending timer eventually fires    *)
(* and the continuation of the awaited Promise.allSettled eventually runs. *)
(***************************************************************************)
BatchFairness ==
    /\ \A s \in Slots : WF_vars(\E a \in Attempts : TimerFire(s, a))
    /\ WF_vars(BatchSettle)

FairBatchSpec == BatchSpec /\ BatchFairness

(***************************************************************************)
(* RetryBatchSpec: a client constructed with one retry, then one call of   *)
(* batchOperation whose operations are answered, rejected or timed out.    *)
(***************************************************************************)
RetryBatchBodies ==
    {[parse |-> "ok", json |-> Obj([userId |-> Text(<<"u1">>), credits |-> Num(100)])]}

RetryBatchInit ==
    /\ client \in {constructor(Key(<<"s", "k", "_", "a">>), [retryAttempts |-> Num(1)])}
    /\ calls = [s \in Slots |-> IdleCall]
    /\ batch = NoBatch

RetryBatchNext ==
    \/ BatchOperation
    \/ BatchSettle
    \/ \E s \in Slots : FetchReject(s)
    \/ \E s \in Slots : \E a \in Attempts : TimerFire(s, a)
    \/ \E s \in Slots : FetchRespond(s, {200}, RetryBatchBodies)
    \/ \E s \in Slots : DelayElapsed(s)

RetryBatchSpec == RetryBatchInit /\ [][RetryBatchNext]_vars

(***************************************************************************)
(* Properties.                                                             *)
(***************************************************************************)
\* The call in slot s went through request (its operation passed validation).
InRequest(s) == calls[s].method # "none"

\* The client's retryAttempts is the non-negative integer n.
RetryAttemptsIs(n) ==
    /\ client.state = "ok"
    /\ client.config.retryAttempts = Num(n)

\* The outcome of the call in slot s is an error of the named class.
FailedWith(s, name) ==
    /\ calls[s].pc = "done"
    /\ calls[s].outcome.kind = "error"
    /\ calls[s].outcome.error.name = name

\* The last attempt of the call in slot s received a response whose body
\* parsed as JSON.
GotJson(s) ==
    /\ calls[s].response.received
    /\ calls[s].response.rbody.parse = "ok"

\* A parsed body is an object with a success field equal to false.
FailureEnvelope(j) ==
    /\ j.t = "object"
    /\ "success" \in DOMAIN j.fields
    /\ j.fields.success.t = "boolean"
    /\ j.fields.success.b = FALSE

\* The error message of a failure envelope contains the pattern.
MessageContains(j, pattern) ==
    /\ "error" \in DOMAIN j.fields
    /\ j.fields.error.t = "string"
    /\ \E i \in DOMAIN j.fields.error.text : j.fields.error.text[i] = pattern

\* C1: with retryAttempts = N >= 0, a request call never performs more than
\* N + 1 transport invocations, and a call whose invocations all failed
\* transiently (fetch rejected or timed out) ends only after exactly N + 1
\* invocations, with a NetworkError.
C1_AllTransientFailures ==
    \A s \in Slots : \A n \in 0..(DEFAULT_retryAttempts + MaxRetry) :
        (RetryAttemptsIs(n) /\ InRequest(s)) =>
            /\ calls[s].fetches <= n + 1
            /\ (calls[s].pc = "done" /\ calls[s].responses = 0) =>
                  /\ calls[s].fetches = n + 1
                  /\ calls[s].rejects = n + 1
                  /\ FailedWith(s, "NetworkError")

C1_Witness ==
    \E s \in Slots :
        /\ RetryAttemptsIs(2)
        /\ calls[s].responses = 0 /\ calls[s].rejects = 3 /\ calls[s].fetches = 3
        /\ FailedWith(s, "NetworkError")

\* C2: with retryAttempts = N >= 0, a request call whose first k <= N
\* invocations all failed transiently is given invocation k + 1, and when that
\* invocation returns a JSON body that is not a failure envelope the call
\* returns that body after exactly k + 1 invocations and is finished.
C2_SuccessAfterFailures ==
    \A s \in Slots : \A n \in 0..(DEFAULT_retryAttempts + MaxRetry) :
        (RetryAttemptsIs(n) /\ InRequest(s)) =>
            /\ (calls[s].responses = 0 /\ calls[s].rejects <= n) =>
                  calls[s].pc \in {"inflight", "delay"}
            /\ (/\ calls[s].responses = 1
                /\ GotJson(s)
                /\ ~FailureEnvelope(calls[s].response.rbody.json)) =>
                  /\ calls[s].pc = "done"
                  /\ calls[s].outcome = Returned(calls[s].response.rbody.json)
                  /\ calls[s].fetches = calls[s].rejects + 1
                  /\ calls[s].rejects <= n

C2_Witness ==
    \E s \in Slots :
        /\ RetryAttemptsIs(2)
        /\ calls[s].rejects = 2 /\ calls[s].responses = 1 /\ calls[s].fetches = 3
        /\ calls[s].pc = "done"
        /\ calls[s].outcome.kind = "value"

TerminalKinds ==
    {"AuthenticationError", "ForbiddenError", "RateLimitError",
     "InsufficientCreditsError", "UserNotFoundError"}

\* C3: an attempt classified as Authentication, Forbidden, RateLimit,
\* InsufficientCredits or UserNotFound ends the call at once with that very
\* error: no delay is waited for it and no invocation follows it; a 402
\* failure envelope with "Insufficient credits" on the first attempt ends the
\* call with InsufficientCredits after exactly 1 invocation.
C3_TerminalKindsNotRetried ==
    \A s \in Slots :
        /\ calls[s].lastError.name \in TerminalKinds =>
              /\ calls[s].pc = "done"
              /\ calls[s].outcome = Thrown(calls[s].lastError)
              /\ calls[s].fetches = calls[s].attempt + 1
              /\ calls[s].delays = calls[s].attempt
        /\ (/\ GotJson(s)
            /\ calls[s].response.status = 402
            /\ FailureEnvelope(calls[s].response.rbody.json)
            /\ MessageContains(calls[s].response.rbody.json, "Insufficient credits")) =>
              /\ FailedWith(s, "InsufficientCreditsError")
              /\ calls[s].attempt = 0 => calls[s].fetches = 1

C3_Witness ==
    \E s \in Slots :
        /\ RetryAttemptsIs(DEFAULT_retryAttempts)
        /\ calls[s].response.received
        /\ calls[s].response.status = 402
        /\ FailedWith(s, "InsufficientCreditsError")
        /\ calls[s].fetches = 1 /\ calls[s].delays = 0

\* C4: a response with HTTP status 401 ends the call with an
\* AuthenticationError, whatever its body.
C4_Status401IsAuthentication ==
    \A s \in Slots :
        (calls[s].response.received /\ calls[s].response.status = 401) =>
            FailedWith(s, "AuthenticationError")

\* The kind the rule list of the claim gives a failure envelope.
ExpectedKind(status, j) ==
    IF status = 401 THEN "AuthenticationError"
    ELSE IF status = 403 THEN "ForbiddenError"
    ELSE IF status = 429 THEN "RateLimitError"
    ELSE IF status = 402 /\ MessageContains(j, "Insufficient credits")
         THEN "InsufficientCreditsError"
    ELSE IF MessageContains(j, "User not found") THEN "UserNotFoundError"
    ELSE IF MessageContains(j, "Missing API key") THEN "AuthenticationError"
    ELSE IF MessageContains(j, "Insufficient credits") THEN "InsufficientCreditsError"
    ELSE "generic"

\* C5: the error raised for a failure envelope is the one the first matching
\* rule gives, in the order 401, 403, 429, 402 with "Insufficient credits",
\* "User not found", "Missing API key", "Insufficient credits", generic.
C5_ClassificationOrder ==
    \A s \in Slots :
        (GotJson(s) /\ FailureEnvelope(calls[s].response.rbody.json)) =>
            LET kind == ExpectedKind(calls[s].response.status,
                                     calls[s].response.rbody.json)
            IN IF kind = "generic"
               THEN calls[s].lastError.name \in {"Error", "TypeError"}
               ELSE calls[s].lastError.name = kind

C5_Witness ==
    \E s \in Slots :
        /\ GotJson(s)
        /\ calls[s].response.status = 403
        /\ FailureEnvelope(calls[s].response.rbody.json)
        /\ MessageContains(calls[s].response.rbody.json, "User not found")
        /\ FailedWith(s, "ForbiddenError")

\* C6: a UserNotFound error names the userId field of the request body when
\* the body has one, and "unknown" otherwise; never the id of the response
\* message.
C6_UserNotFoundReference ==
    \A s \in Slots :
        calls[s].lastError.name = "UserNotFoundError" =>
            calls[s].lastError.message =
                <<"User not found: ",
                  IF calls[s].body.present /\ "userId" \in DOMAIN calls[s].body.fields
                  THEN calls[s].body.fields.userId.id
                  ELSE "unknown">>

C6_Witness ==
    \E s \in Slots :
        /\ FailedWith(s, "UserNotFoundError")
        /\ calls[s].response.status = 200
        /\ calls[s].body.present
        /\ calls[s].outcome.error.message = <<"User not found: ", "u1">>

OneOutcome(s) ==
    IF calls[s].pc = "done"
    THEN /\ calls[s].settles = 1
         /\ \/ calls[s].outcome.kind = "value"
            \/ /\ calls[s].outcome.kind = "error"
               /\ calls[s].outcome.error.name \in
                     TerminalKinds \cup {"NetworkError", "ValidationError"}
    ELSE /\ calls[s].settles = 0
         /\ calls[s].outcome = NoOutcome

\* C8: every request call completes, with exactly one outcome.
C8_CompletesWithOneOutcome ==
    /\ \A s \in Slots : [](OneOutcome(s))
    /\ \A s \in Slots : (calls[s].pc \in {"inflight", "delay"}) ~> (calls[s].pc = "done")

C8_Witness ==
    \E s \in Slots :
        /\ InRequest(s)
        /\ calls[s].pc = "done"
        /\ calls[s].fetches = 4
        /\ calls[s].settles = 1

CreditOps == {"getCredits", "addCredits", "deductCredits", "setCredits"}

\* The userId is not a string, is empty or whitespace-only, or is longer
\* than 255 characters.
BadUserId(u) ==
    \/ u.t # "string"
    \/ u.lead + u.core + u.trail = 0
    \/ u.core = 0
    \/ u.lead + u.core + u.trail > 255

\* The amount is not an integer, is <= 0 for add and deduct, or < 0 for set.
BadAmount(op, a) ==
    /\ op \in {"addCredits", "deductCredits", "setCredits"}
    /\ \/ a.t # "number"
       \/ a.d = 0
       \/ a.n % a.d # 0
       \/ (op # "setCredits" /\ a.n <= 0)
       \/ (op = "setCredits" /\ a.n < 0)

\* C9: a credit operation given a bad userId or a bad amount fails with
\* Validation and invokes the transport zero times, and batchOperation given
\* a bad userId does the same; every other userId and amount (a userId of 255
\* characters, a setCredits amount of 0) passes validation.
C9_ValidationBeforeNetwork ==
    /\ \A s \in Slots :
          calls[s].op \in CreditOps =>
             IF BadUserId(calls[s].args.userId) \/ BadAmount(calls[s].op, calls[s].args.amount)
             THEN /\ FailedWith(s, "ValidationError")
                  /\ calls[s].fetches = 0
                  /\ ~calls[s].wire.sent
             ELSE /\ calls[s].fetches >= 1
                  /\ ~FailedWith(s, "ValidationError")
    /\ (batch.state # "none" /\ BadUserId(batch.userId)) =>
          /\ batch.state = "done"
          /\ batch.outcome.kind = "error"
          /\ batch.outcome.error.name = "ValidationError"
          /\ \A s \in Slots : calls[s] = IdleCall

C9_Witness ==
    \E s \in Slots :
        /\ calls[s].op = "setCredits"
        /\ calls[s].args.userId = UserStr("padded256", 1, MaxUserIdLength, 0)
        /\ calls[s].args.amount = Num(0)
        /\ FailedWith(s, "ValidationError")
        /\ calls[s].fetches = 0

\* The credential is a non-empty string starting with "sk_".
ServiceCredential(k) ==
    /\ k.t = "string"
    /\ Len(k.chars) >= 3
    /\ k.chars[1] = "s" /\ k.chars[2] = "k" /\ k.chars[3] = "_"

GoodCount(count) ==
    /\ count.t = "number"
    /\ count.d = 1
    /\ count.n >= 1 /\ count.n <= 100

\* C11: batchOperation given a count that is not an integer in [1, 100]
\* fails with Validation, starts no single-credit operation and invokes the
\* transport zero times; every integer count in [1, 100] passes the check
\* (with a good userId the batch is started and does not fail with Validation).
C11_BatchCountValidation ==
    /\ \A n \in 1..100 : ~BadCount(Num(n))
    /\ batch.state # "none" =>
          IF ~GoodCount(batch.count)
          THEN /\ batch.state = "done"
               /\ batch.outcome.kind = "error"
               /\ batch.outcome.error.name = "ValidationError"
               /\ \A s \in Slots : calls[s] = IdleCall /\ calls[s].fetches = 0
          ELSE ~BadUserId(batch.userId) =>
                  /\ batch.outcome.kind # "error"
                  /\ \A s \in 1..batch.count.n : calls[s].fetches >= 1

C11_Witness ==
    /\ batch.state = "done"
    /\ ~BadUserId(batch.userId)
    /\ batch.count = Num(101)
    /\ batch.outcome = Thrown(ValidationError(<<"count must be between 1 and 100">>))
    /\ \A s \in Slots : calls[s].fetches = 0

\* batchOperation returned an aggregate.
BatchReturned ==
    /\ batch.state = "done"
    /\ batch.outcome.kind = "value"

\* The number of operations of the batch that ended in the given way.
SettledAs(kind) ==
    Cardinality({s \in 1..batch.count.n : calls[s].outcome.kind = kind})

\* C12: in every aggregate returned by batchOperation with a valid count N,
\* operations has totalSuccessful entries, errors has totalFailed entries and
\* totalSuccessful + totalFailed = N, whatever the outcomes of the N
\* operations; the two totals are the numbers of fulfilled and of rejected
\* operations.
C12_BatchTotals ==
    BatchReturned =>
        LET r == batch.outcome.value IN
        /\ Len(r.operations) = r.totalSuccessful
        /\ Len(r.errors) = r.totalFailed
        /\ r.totalSuccessful + r.totalFailed = batch.count.n
        /\ r.totalSuccessful = SettledAs("value")
        /\ r.totalFailed = SettledAs("error")

C12_Witness ==
    /\ BatchReturned
    /\ batch.count = Num(2)
    /\ batch.outcome.value.totalSuccessful = 1
    /\ batch.outcome.value.totalFailed = 1
    /\ Len(batch.outcome.value.errors) = 1

\* batchOperation passed its validation of userId and count.
BatchStarted ==
    /\ batch.state \in {"waiting", "done"}
    /\ ~BadUserId(batch.userId)
    /\ GoodCount(batch.count)

\* Exactly count operations of the requested kind and amount 1 were started,
\* each once; the batch is finished only when all of them have settled, and
\* then with an aggregate.
FanOut ==
    BatchStarted =>
        /\ \A s \in Slots :
              IF s <= batch.count.n
              THEN /\ calls[s].op = (IF batch.operation = "add" THEN "addCredits"
                                                                ELSE "deductCredits")
                   /\ calls[s].args = [userId |-> batch.userId, amount |-> Num(1)]
                   /\ calls[s].body.fields.amount = Num(1)
                   /\ calls[s].fetches >= 1
                   /\ calls[s].settles <= 1
              ELSE calls[s] = IdleCall
        /\ batch.state = "waiting" => batch.outcome = NoOutcome
        /\ batch.state = "done" =>
              /\ batch.outcome.kind = "value"
              /\ \A s \in 1..batch.count.n :
                    calls[s].pc = "done" /\ calls[s].settles = 1

\* The settlement of one operation leaves every other operation as it was.
SettlesAlone ==
    \A s \in Slots, t \in Slots :
        (s # t /\ calls[s].pc # "done" /\ calls'[s].pc = "done") =>
            calls'[t] = calls[t]

\* C13: once userId and count validate, batchOperation starts exactly count
\* single-credit operations of the requested kind, each once; an operation
\* that fails leaves the others running; the aggregate is returned only after
\* all of them have settled; and batchOperation always ends by returning an
\* aggregate, never by throwing, even when every operation fails.
C13_BatchFanOut ==
    /\ [](FanOut)
    /\ [][SettlesAlone]_vars
    /\ BatchStarted ~> BatchReturned

C13_Witness ==
    /\ BatchReturned
    /\ batch.count = Num(2)
    /\ batch.outcome.value.totalFailed = 2
    /\ batch.outcome.value.operations = <<>>
    /\ \A s \in 1..2 : FailedWith(s, "NetworkError") /\ calls[s].fetches = 1

\* The slot of the k-th operation, in submission order, that was fulfilled.
KthFulfilled(k) ==
    CHOOSE s \in 1..batch.count.n :
        /\ calls[s].outcome.kind = "value"
        /\ Cardinality({t \in 1..s : calls[t].outcome.kind = "value"}) = k

\* C14: in the aggregate, every operation that failed has exactly one errors
\* entry, which carries its 0-based submission index and its message, and
\* every errors entry is of that form, in whatever order the operations
\* settled; the values in operations are those of the fulfilled operations in
\* submission order.
C14_BatchIndices ==
    BatchReturned =>
        LET r == batch.outcome.value
            n == batch.count.n
        IN /\ \A k \in 1..Len(r.errors) :
                 /\ r.errors[k].index \in 0..(n - 1)
                 /\ calls[r.errors[k].index + 1].outcome.kind = "error"
                 /\ r.errors[k].error = calls[r.errors[k].index + 1].outcome.error.message
           /\ \A s \in 1..n :
                 calls[s].outcome.kind = "error" =>
                    Cardinality({k \in 1..Len(r.errors) : r.errors[k].index = s - 1}) = 1
           /\ \A j, k \in 1..Len(r.errors) :
                 j # k => r.errors[j].index # r.errors[k].index
           /\ \A k \in 1..Len(r.operations) :
                 r.operations[k] = calls[KthFulfilled(k)].outcome.value
           /\ Len(batch.order) = n

\* The second of two operations fails and settles first; the first succeeds.
C14_Witness ==
    /\ BatchReturned
    /\ batch.count = Num(2)
    /\ batch.order = <<2, 1>>
    /\ Len(batch.outcome.value.errors) = 1
    /\ batch.outcome.value.errors[1].index = 1
    /\ Len(batch.outcome.value.operations) = 1

\* The last attempt of the call in slot s received a response with a 5xx
\* status.
GotServerError(s) ==
    /\ calls[s].response.received
    /\ calls[s].response.status \in 500..599

\* C15: a response with a 5xx status is retried whatever its body: while
\* attempts remain the call waits the retry delay for another invocation, and
\* the call never ends with a success value or a terminal error on it (it
\* ends only by exhaustion, with a NetworkError).
C15_ServerErrorsRetried ==
    \A s \in Slots : \A n \in 0..(DEFAULT_retryAttempts + MaxRetry) :
        (RetryAttemptsIs(n) /\ GotServerError(s)) =>
            /\ calls[s].attempt < n => calls[s].pc = "delay"
            /\ calls[s].pc = "done" =>
                  /\ FailedWith(s, "NetworkError")
                  /\ calls[s].fetches = n + 1

\* The errors that are not of a KeyParty class: a rejected or aborted fetch,
\* or a plain Error thrown while a response was handled.
TransientKinds == {"Error", "TypeError", "AbortError"}

BadName(nm) ==
    /\ nm.t # "undefined"
    /\ \/ nm.t # "string"
       \/ nm.core = 0
       \/ nm.lead + nm.core + nm.trail > 255

\* The metadata is given and is not a plain object, or does not serialize to
\* a text of at most 10000 characters.
BadMetadata(m) ==
    /\ m.t # "undefined"
    /\ \/ m.t # "object"
       \/ m.array
       \/ m.json.kind # "string"
       \/ m.json.length > 10000

\* The earliest parameter of a createChildKey call that is invalid.
FirstInvalid(a) ==
    IF BadUserId(a.externalUserId) THEN "externalUserId"
    ELSE IF BadAmount("addCredits", a.initialCredits) THEN "initialCredits"
    ELSE IF BadName(OptionOf(a.options, "name")) THEN "name"
    ELSE IF BadMetadata(OptionOf(a.options, "metadata")) THEN "metadata"
    ELSE "none"

\* The messages of the Validation errors of each parameter.
MessagesOf(parameter) ==
    CASE parameter = "externalUserId" ->
            {<<"userId is required and must be a string">>,
             <<"userId cannot be empty or whitespace">>,
             <<"userId must be 255 characters or less">>}
      [] parameter = "initialCredits" ->
            {<<"amount must be an integer">>, <<"amount must be positive">>}
      [] parameter = "name" ->
            {<<"name must be a string">>, <<"name cannot be empty or whitespace">>,
             <<"name must be 255 characters or less">>}
      [] parameter = "metadata" ->
            {<<"metadata must be an object">>, <<"metadata must be JSON-serializable">>,
             <<"metadata size must be 10KB or less when serialized">>}
      [] OTHER -> {}

\* C17: a createChildKey call with an invalid parameter fails with the
\* Validation error of the earliest invalid parameter in the order
\* externalUserId, initialCredits, name, metadata, and invokes the transport
\* zero times (a metadata object that serializes to undefined, being the only
\* invalid parameter, fails with a TypeError instead, also before any
\* request); a call whose parameters are all valid issues its request.
C17_ChildKeyValidationOrder ==
    \A s \in Slots :
        calls[s].op = "createChildKey" =>
            LET first == FirstInvalid(calls[s].args)
                m == OptionOf(calls[s].args.options, "metadata")
            IN IF first = "none"
               THEN /\ calls[s].fetches >= 1
                    /\ ~FailedWith(s, "ValidationError")
               ELSE /\ calls[s].pc = "done"
                    /\ calls[s].outcome.kind = "error"
                    /\ calls[s].fetches = 0
                    /\ ~calls[s].wire.sent
                    /\ IF first = "metadata" /\ m.t = "object" /\ ~m.array
                                            /\ m.json.kind = "undefined"
                       THEN calls[s].outcome.error.name = "TypeError"
                       ELSE /\ calls[s].outcome.error.name = "ValidationError"
                            /\ calls[s].outcome.error.message \in MessagesOf(first)

\* All four parameters invalid: the error is the one of externalUserId.
C17_Witness ==
    \E s \in Slots :
        /\ calls[s].op = "createChildKey"
        /\ calls[s].args.externalUserId = UserStr("blank", 2, 0, 0)
        /\ calls[s].args.initialCredits = Num(-1)
        /\ calls[s].args.options =
              Obj([name |-> Num(5), environment |-> Undefined, metadata |-> Null])
        /\ calls[s].outcome =
              Thrown(ValidationError(<<"userId cannot be empty or whitespace">>))
        /\ calls[s].fetches = 0

\* The status code the README error table gives each kind of error.
DocumentedStatus(name) ==
    CASE name = "ForbiddenError" -> 403
      [] name = "AuthenticationError" -> 401
      [] name = "ValidationError" -> 400
      [] name = "UserNotFoundError" -> 404
      [] name = "InsufficientCreditsError" -> 402
      [] name = "RateLimitError" -> 429

\* The machine-readable code of each kind of error.
FixedCode(name) ==
    CASE name = "ForbiddenError" -> "FORBIDDEN_ERROR"
      [] name = "AuthenticationError" -> "AUTH_ERROR"
      [] name = "ValidationError" -> "VALIDATION_ERROR"
      [] name = "UserNotFoundError" -> "USER_NOT_FOUND"
      [] name = "InsufficientCreditsError" -> "INSUFFICIENT_CREDITS"
      [] name = "RateLimitError" -> "RATE_LIMIT_ERROR"

\* The error carries the documented status code and the code of its kind.
AsDocumented(e) ==
    e.name \in TerminalKinds \cup {"ValidationError"} =>
        /\ e.statusCode = DocumentedStatus(e.name)
        /\ e.code = FixedCode(e.name)

\* C18: every error the client surfaces, from the constructor or from a
\* call, carries the status code documented for its kind (Forbidden 403,
\* Authentication 401, Validation 400, UserNotFound 404, InsufficientCredits
\* 402, RateLimit 429) whatever the HTTP status of the response, and the
\* fixed code of its kind.
C18_DocumentedStatusCodes ==
    /\ client.state = "failed" => AsDocumented(client.error)
    /\ \A s \in Slots :
          (calls[s].pc = "done" /\ calls[s].outcome.kind = "error") =>
              AsDocumented(calls[s].outcome.error)

\* C19: a failure envelope that matches none of the status or message rules
\* is terminal: the call ends on that response with the generic failure, and
\* neither a retry delay nor another invocation follows it.
C19_GenericFailureTerminal ==
    \A s \in Slots :
        (/\ GotJson(s)
         /\ FailureEnvelope(calls[s].response.rbody.json)
         /\ ExpectedKind(calls[s].response.status, calls[s].response.rbody.json)
                = "generic") =>
            /\ calls[s].pc = "done"
            /\ calls[s].outcome = Thrown(calls[s].lastError)
            /\ calls[s].fetches = calls[s].responses + calls[s].rejects
            /\ calls[s].delays = calls[s].attempt

\* C20: a response with a 2xx status whose body cannot be parsed as JSON
\* ends the call at once with the malformed-response error: no retry delay
\* is waited and no further invocation is made.
C20_MalformedSuccessTerminal ==
    \A s \in Slots :
        (/\ calls[s].response.received
         /\ calls[s].response.rbody.parse = "fail"
         /\ ResponseOk(calls[s].response.status)) =>
            /\ calls[s].pc = "done"
            /\ calls[s].outcome.kind = "error"
            /\ calls[s].outcome.error.message = <<"Invalid response format: expected JSON">>
            /\ calls[s].delays = calls[s].attempt

\* The kind the status table gives a response whose body did not parse.
TableKind(status) ==
    CASE status = 401 -> "AuthenticationError"
      [] status = 403 -> "ForbiddenError"
      [] status = 429 -> "RateLimitError"
      [] OTHER -> "none"

\* C21: a non-2xx response whose body cannot be parsed as JSON ends the call
\* at once, without a retry, with Authentication for 401, Forbidden for 403
\* and RateLimit for 429; for every other status it is a transient failure
\* that goes to the retry decision.
C21_UnparsedStatusTable ==
    \A s \in Slots :
        (/\ calls[s].response.received
         /\ calls[s].response.rbody.parse = "fail"
         /\ ~ResponseOk(calls[s].response.status)) =>
            IF TableKind(calls[s].response.status) # "none"
            THEN /\ FailedWith(s, TableKind(calls[s].response.status))
                 /\ calls[s].outcome = Thrown(calls[s].lastError)
                 /\ calls[s].delays = calls[s].attempt
            ELSE /\ calls[s].lastError.name = "Error"
                 /\ calls[s].pc = "delay" \/ FailedWith(s, "NetworkError")

\* The transport invocations of the call in slot s that have been made and
\* have neither been answered nor rejected.
InFlight(s) == calls[s].fetches - (calls[s].rejects + calls[s].responses)

\* At most one invocation of a call is in flight, and one is exactly while the
\* call awaits fetch.
OneInFlight ==
    \A s \in Slots :
        /\ InFlight(s) \in {0, 1}
        /\ InFlight(s) = 1 <=> calls[s].pc = "inflight"

\* A further invocation of a running call is made only by the step in which
\* its retry delay elapses, after the previous invocation has failed.
NextAttemptAfterDelay ==
    \A s \in Slots :
        (calls[s].fetches >= 1 /\ calls'[s].fetches > calls[s].fetches) =>
            /\ calls'[s].fetches = calls[s].fetches + 1
            /\ calls[s].pc = "delay"
            /\ InFlight(s) = 0
            /\ calls[s].lastError.name \in TransientKinds
            /\ calls[s].delays = calls[s].fetches
            /\ calls'[s].attempt = calls[s].attempt + 1

\* C22: within one request call the attempts are strictly sequential: at
\* most one transport invocation of the call is in flight at any moment, and
\* attempt n + 1 is issued only after attempt n has failed and the retry delay
\* that followed it has elapsed.
C22_SequentialAttempts ==
    /\ [](OneInFlight)
    /\ [][NextAttemptAfterDelay]_vars

C22_Witness ==
    \E s \in Slots :
        /\ calls[s].pc = "inflight"
        /\ calls[s].attempt = 2
        /\ calls[s].fetches = 3 /\ calls[s].delays = 2
        /\ calls[s].rejects + calls[s].responses = 2

\* The step is the firing of the timeout timer of attempt a of the call in
\* slot s (a response clears the timer instead, and counts as a response).
TimerFires(s, a) ==
    /\ a \in calls[s].timers
    /\ a \notin calls'[s].timers
    /\ calls'[s].responses = calls[s].responses

\* A timer that fires aborts the invocation of its own attempt, if that is
\* still in flight, and the abort goes to the retry decision; it changes
\* nothing else in its call and nothing in any other call.
OwnTimeout ==
    \A s \in Slots : \A a \in Attempts :
        TimerFires(s, a) =>
            /\ \A t \in Slots \ {s} : calls'[t] = calls[t]
            /\ IF calls[s].pc = "inflight" /\ calls[s].attempt = a
               THEN /\ calls'[s].rejects = calls[s].rejects + 1
                    /\ calls'[s].lastError =
                          PlainError("AbortError", <<"This operation was aborted">>, a)
                    /\ calls'[s].fetches = calls[s].fetches
                    /\ IF a < client.config.retryAttempts.n
                       THEN calls'[s].pc = "delay"
                       ELSE /\ calls'[s].pc = "done"
                            /\ calls'[s].outcome.error.name = "NetworkError"
               ELSE calls'[s] = [calls[s] EXCEPT !.timers = @ \ {a}]

\* C23: each attempt has its own timeout: the timer of an attempt aborts only
\* that attempt's in-flight invocation, never a later attempt of the same call
\* nor an attempt of another call running at the same time (a sibling
\* operation of a batch), and the aborted attempt is a transient failure that
\* goes to the retry decision.
C23_OwnTimeout == [][OwnTimeout]_vars

\* The first operation of a batch was aborted by its timer and waits to
\* retry; its sibling is still in flight on its first attempt.
C23_Witness ==
    /\ batch.state = "waiting"
    /\ calls[1].pc = "delay"
    /\ calls[1].lastError = PlainError("AbortError", <<"This operation was aborted">>, 0)
    /\ calls[2].pc = "inflight"
    /\ calls[2].attempt = 0 /\ calls[2].rejects = 0
    /\ 0 \in calls[2].timers

\* The attempts of the call in slot s that have ended, by a rejection, an
\* abort or a response.
Ended(s) == calls[s].rejects + calls[s].responses

UsesClientValues ==
    \A s \in Slots :
        /\ calls[s].wire.sent =>
              /\ client.state = "ok"
              /\ calls[s].wire.url.base = client.config.baseUrl
              /\ calls[s].wire.apiKey = client.serviceKey
              /\ calls[s].wire.timeout = client.config.timeout
        /\ \A i \in 1..Len(calls[s].waits) : calls[s].waits[i] = client.config.retryDelay

\* A constructed client is never changed.
ClientUnchanged == client.state = "ok" => client' = client

C26_AtLeastOneAttempt ==
    /\ client.state = "ok" =>
          /\ client.config.retryAttempts.t = "number"
          /\ client.config.retryAttempts.d = 1
          /\ client.config.retryAttempts.n >= 0
    /\ \A s \in Slots :
          InRequest(s) =>
              /\ calls[s].fetches >= 1
              /\ FailedWith(s, "NetworkError") => Ended(s) >= 1

\* The typed kinds of failure that request surfaces.
TypedKinds == TerminalKinds \cup {"NetworkError"}

\* C27: a call that went through request fails only with an Authentication,
\* Forbidden, RateLimit, InsufficientCredits, UserNotFound or Network error
\* carrying the code of its class; the plain errors raised inside the attempt
\* loop never are its outcome; and it returns a value only when its last
\* attempt received a parsed body that is not a failure envelope, the value
\* being that body and not a default put in place of an error.
C27_TypedFailures ==
    \A s \in Slots :
        (InRequest(s) /\ calls[s].pc = "done") =>
            /\ calls[s].outcome.kind \in {"value", "error"}
            /\ calls[s].outcome.kind = "error" =>
                  /\ calls[s].outcome.error.name \in TypedKinds
                  /\ calls[s].outcome.error.name \notin TransientKinds
                  /\ "code" \in DOMAIN calls[s].outcome.error
                  /\ calls[s].lastError.name \in TransientKinds =>
                        calls[s].outcome.error.name = "NetworkError"
            /\ calls[s].outcome.kind = "value" =>
                  /\ GotJson(s)
                  /\ ~FailureEnvelope(calls[s].response.rbody.json)
                  /\ calls[s].outcome.value = calls[s].response.rbody.json

\* The last attempt was answered by an unrecognised failure envelope; the
\* call fails with a NetworkError that wraps the plain error.
C27_Witness ==
    \E s \in Slots :
        /\ FailedWith(s, "NetworkError")
        /\ GotJson(s)
        /\ calls[s].response.rbody.json = Envelope(Text(<<"Unauthorized">>))
        /\ calls[s].lastError.name = "Error"
        /\ calls[s].lastError.message = <<"Unauthorized">>

MutatingOps == {"addCredits", "deductCredits", "setCredits"}

C29_TimersCancelled ==
    \A s \in Slots :
        /\ calls[s].pc = "inflight" => calls[s].timers \subseteq {calls[s].attempt}
        /\ calls[s].pc \in {"delay", "done"} => calls[s].timers = {}

\* The text of the credential occurs in the path or the query of the URL.
CredentialInUrl(w) ==
    \E i \in DOMAIN w.url.path.query : w.url.path.query[i].value = w.apiKey

\* The text of the credential occurs in a field of the JSON body.
CredentialInBody(w) ==
    /\ w.body.present
    /\ \E f \in DOMAIN w.body.fields : w.body.fields[f] = w.apiKey

\* C30: every transport invocation carries the credential in the x-api-key
\* header and nowhere else: not in the URL or its query string and not in
\* the JSON body.
C30_CredentialOnlyInHeader ==
    \A s \in Slots :
        calls[s].wire.sent =>
            /\ calls[s].wire.apiKey = client.serviceKey
            /\ ~CredentialInUrl(calls[s].wire)
            /\ ~CredentialInBody(calls[s].wire)

====
